---- MODULE Spec2Model ----
(***************************************************************************)
(* Model of allennlp/interpret/attackers/hotflip.py: the Hotflip attacker  *)
(* object, its lazily built embedding matrix, the untargeted and targeted  *)
(* flip loops and the first-order Taylor candidate selection.              *)
(*                                                                         *)
(* Conventions.  A token text is a sequence of one-character strings, so   *)
(* that str.isalnum() is computed character by character.  Vocabulary ids  *)
(* are 0-based as in the code; the id i of a vocabulary v is stored at     *)
(* v[i+1].  Sequence positions are 1-based here: position p of the model   *)
(* is index p-1 of the Python list.  Python's None is the record None.     *)
(***************************************************************************)
EXTENDS Integers, Sequences, FiniteSets, TLC

VARIABLES
    vocab,                        \* self.vocab._index_to_token[self.namespace]
    invalid_replacement_indices,  \* self.invalid_replacement_indices
    token_embedding,              \* self.token_embedding (None until built)
    constructions,                \* number of _construct_embedding_matrix runs
    pc,                           \* "idle", "loop", "after_loop", "return", "raised"
    method,                       \* "none", "attack", "targeted", "initialize", "taylor"
    ignore_tokens,                \* the ignore list in force for the call
    target,                       \* argument target of the targeted attack
    target_word,                  \* argument target_word of the targeted attack
    original_tokens,              \* deepcopy of the first instance's tokens
    num_instances,                \* len(original_instances)
    i,                            \* index of the instance being attacked (1-based)
    current_tokens,               \* current_text_field.tokens
    grads,                        \* grads[grad_input_field], one vector per position
    outputs,                      \* the model outputs: has_clusters, clusters
    original_outputs,             \* the snapshot of the outputs, when they carry clusters
    flipped,                      \* the list flipped
    initial_flipped,              \* flipped as it was when the while loop was entered
    changed,                      \* last result of utils.instance_has_changed
    loop_exit,                    \* how the while loop was left: "none", "exhausted", "stopped"
    final_tokens,                 \* the list final_tokens
    grad_calls,                   \* number of predictor.get_gradients calls of this call
    iterations,                   \* completed passes of the while loop for this instance
    error,                        \* the exception that ended the call, or "none"
    taylor,                       \* arguments and result of a direct _first_order_taylor call
    predictor                     \* self.predictor: its token indexers and embedding layer

vars == <<vocab, invalid_replacement_indices, token_embedding, constructions, pc,
          method, ignore_tokens, target, target_word, original_tokens,
          num_instances, i, current_tokens, grads, outputs, original_outputs,
          flipped, initial_flipped, changed, loop_exit, final_tokens, grad_calls,
          iterations, error, taylor,
          predictor>>

None == [is_none |-> TRUE]

\* an optional argument that was given, with its value
Some(v) == [is_none |-> FALSE, val |-> v]

-----------------------------------------------------------------------------
(* Bounds of the model. *)

\* longest token sequence of an input
MaxLen == 2
\* largest number of labeled instances an input produces
MaxInstances == 2
\* largest number of embedding-matrix constructions that are followed
MaxConstructions == 2
\* largest number of token indexers of a dataset reader
MaxIndexers == 2

-----------------------------------------------------------------------------
(* Token texts and vocabularies. *)

AlnumChars == {"a", "b", "c", "d", "x", "y", "z", "A", "Z", "0", "1", "9"}

\* str.isalnum(): at least one character and every character alphanumeric
IsAlnum(text) == Len(text) > 0 /\ \A k \in 1..Len(text) : text[k] \in AlnumChars

TxtPadding == <<"@", "@", "P", "A", "D", "D", "I", "N", "G", "@", "@">>
TxtUnknown == <<"@", "@", "U", "N", "K", "N", "O", "W", "N", "@", "@">>
TxtNull == <<"@", "@", "N", "U", "L", "L", "@", "@">>
TxtDot == <<".">>
TxtComma == <<",">>
TxtA == <<"a">>
TxtB == <<"b", "1">>
TxtC == <<"c", "-", "d">>

\* ["@@NULL@@", '.', ',', ';', '!', '?']
DefaultIgnoreTokens == <<TxtNull, TxtDot, TxtComma, <<";">>, <<"!">>, <<"?">> >>

\* the vocabulary of the attacked model in the attack runs
AttackVocab == <<TxtPadding, TxtUnknown, TxtDot, TxtA, TxtB>>

\* the vocabularies the candidate selection is exercised on; the second has no
\* alphanumeric token at all, the fourth only alphanumeric ones
Vocabularies ==
    { AttackVocab,
      <<TxtPadding, TxtUnknown, TxtDot>>,
      <<TxtA, TxtPadding, TxtB, TxtC>>,
      <<TxtB, TxtA>> }

VocabSize(v) == Len(v)

IndexToToken(v, id) == v[id + 1]

\* the id of a text of the vocabulary
TokenToIndex(v, text) == CHOOSE id \in 0..(Len(v) - 1) : v[id + 1] = text

Contains(list, x) == \E k \in 1..Len(list) : list[k] = x

\* the ids whose token is not alphanumeric, in ascending order
RECURSIVE InvalidFrom(_, _)
InvalidFrom(v, n) ==
    IF n = 0 THEN <<>>
    ELSE IF ~IsAlnum(IndexToToken(v, n - 1))
         THEN Append(InvalidFrom(v, n - 1), n - 1)
         ELSE InvalidFrom(v, n - 1)

InvalidReplacementIndices(v) == InvalidFrom(v, Len(v))

-----------------------------------------------------------------------------
(* Vectors, the embedding matrix and the first-order Taylor selection. *)

RECURSIVE DotFrom(_, _, _)
DotFrom(a, b, n) == IF n = 0 THEN 0 ELSE DotFrom(a, b, n - 1) + a[n] * b[n]

\* g.dot(h)
Dot(a, b) == DotFrom(a, b, Len(a))

\* rows of the embedding layers of the modelled models, by vocabulary id
WeightRowsA == << <<0, 0>>, <<1, 0>>, <<2, 1>>, <<0, 1>>, <<1, 1>> >>
WeightRowsB == << <<1, 1>>, <<0, 2>>, <<1, 1>>, <<2, 0>>, <<0, 0>> >>

LayerWeight(rows, v) == SubSeq(rows, 1, VocabSize(v))

\* the gradient vectors a position can receive
GradVectors == { <<0, 0>>, <<1, -1>> }

\* an entry of neg_dir_dot_grad: a finite number or -inf
Finite(x) == [inf |-> FALSE, val |-> x]
NegInf == [inf |-> TRUE, val |-> 0]

ScoreGreater(a, b) == /\ ~a.inf
                      /\ (b.inf \/ a.val > b.val)

\* argmax that keeps the last of several maxima
ArgmaxScore_Last(score, n) ==
    CHOOSE k \in 0..(n - 1) :
        /\ \A j \in 0..(n - 1) : ~ScoreGreater(score[j], score[k])
        /\ \A j \in (k + 1)..(n - 1) : ScoreGreater(score[k], score[j])

\* numpy argmax over ids 0..n-1: the first id no other id exceeds
ArgmaxScore(score, n) ==
    CHOOSE k \in 0..(n - 1) :
        /\ \A j \in 0..(n - 1) : ~ScoreGreater(score[j], score[k])
        /\ \A j \in 0..(k - 1) : ScoreGreater(score[k], score[j])

\* neg_dir_dot_grad without the -inf of the invalid ids
NegDirDotGrad_Unmasked(grad, embedding_matrix, token_idx, sign, invalid) ==
    LET word_embeds == embedding_matrix[token_idx + 1]
        prev_embed_dot_grad == Dot(grad, word_embeds)
    IN [k \in 0..(Len(embedding_matrix) - 1) |->
          Finite(sign * (prev_embed_dot_grad - Dot(grad, embedding_matrix[k + 1])))]

\* neg_dir_dot_grad with the invalid ids forced to -inf
NegDirDotGrad(grad, embedding_matrix, token_idx, sign, invalid) ==
    LET word_embeds == embedding_matrix[token_idx + 1]
        prev_embed_dot_grad == Dot(grad, word_embeds)
    IN [k \in 0..(Len(embedding_matrix) - 1) |->
          IF Contains(invalid, k)
          THEN NegInf
          ELSE Finite(sign * (prev_embed_dot_grad - Dot(grad, embedding_matrix[k + 1])))]

FirstOrderTaylor(grad, embedding_matrix, token_idx, sign, invalid) ==
    ArgmaxScore(NegDirDotGrad(grad, embedding_matrix, token_idx, sign, invalid),
                Len(embedding_matrix))

-----------------------------------------------------------------------------
(* The attacker object: __init__, initialize, _construct_embedding_matrix. *)

\* the classes of the token indexers of a dataset reader: the single-id
\* indexer, TokenCharactersIndexer, ELMoTokenCharactersIndexer, and one more
\* that is neither (a part-of-speech tag indexer, say)
IndexerKinds == {"single_id", "characters", "elmo", "pos_tag"}

\* isinstance(token_indexer, TokenCharactersIndexer)
IsTokenCharactersIndexer(token_indexer) == token_indexer = "characters"

\* isinstance(token_indexer, ELMoTokenCharactersIndexer)
IsELMoTokenCharactersIndexer(token_indexer) == token_indexer = "elmo"

\* the keys of all_inputs after the for loop over the token indexers of the
\* dataset reader: "tokens" is always there, an indexer adds a key when one of
\* the two isinstance tests holds for it, and adds nothing otherwise
AllInputsKeys(token_indexers) ==
    {"tokens"}
    \cup {"token_characters" : k \in {j \in DOMAIN token_indexers :
                                        IsTokenCharactersIndexer(token_indexers[j])}}
    \cup {"elmo" : k \in {j \in DOMAIN token_indexers :
                            IsELMoTokenCharactersIndexer(token_indexers[j])}}

\* all_inputs: every key holds one entry per vocabulary id
AllInputs(v, token_indexers) ==
    [keys |-> AllInputsKeys(token_indexers), num_tokens |-> Len(v)]

RECURSIVE Repeat(_, _)
\* row concatenated n times
Repeat(row, n) == IF n = 0 THEN <<>> ELSE row \o Repeat(row, n - 1)

\* embedding_layer(all_inputs).squeeze() for a layer that is not a lookup
\* table: one row per vocabulary id, the embeddings of the keys side by side
Forward(embedding_layer, all_inputs) ==
    [id \in 1..all_inputs.num_tokens |->
        Repeat(embedding_layer.weight[((id - 1) % Len(embedding_layer.weight)) + 1],
               Cardinality(all_inputs.keys))]

\* embedding_matrix: the weight of a lookup table as it is, or else the output
\* of the forward pass over all_inputs
EmbeddingMatrixOf(v, pred) ==
    IF pred.embedding_layer.lookup
    THEN pred.embedding_layer.weight
    ELSE Forward(pred.embedding_layer, AllInputs(v, pred.token_indexers))

\* num_embeddings = len(embedding_matrix): the size taken from the matrix
NumEmbeddingsArg_FromMatrix(v, embedding_matrix) == Len(embedding_matrix)

\* num_embeddings=self.vocab.get_vocab_size(self.namespace)
NumEmbeddingsArg(v, embedding_matrix) == VocabSize(v)

\* the exception a constructor ends with when its arguments contradict
ConfigurationError == [raised |-> "ConfigurationError"]

\* Embedding(num_embeddings, embedding_dim, weight, trainable=False): the
\* matrix of num_embeddings rows of width embedding_dim, or a configuration
\* error when the weight does not have that shape
Embedding(num_embeddings, embedding_dim, weight) ==
    IF Len(weight) = num_embeddings /\ \A k \in DOMAIN weight : Len(weight[k]) = embedding_dim
    THEN [num_embeddings |-> num_embeddings, embedding_dim |-> embedding_dim,
          weight |-> weight]
    ELSE ConfigurationError

\* _construct_embedding_matrix: the Embedding built from the embedding layer of
\* the model, or the exception of the Embedding constructor
ConstructEmbeddingMatrix(v, pred) ==
    LET embedding_matrix == EmbeddingMatrixOf(v, pred)
    IN Embedding(NumEmbeddingsArg(v, embedding_matrix),
                 Len(embedding_matrix[1]),
                 embedding_matrix)

\* a single-id indexer over a lookup table that has one row per vocabulary id
LookupPredictor(v) ==
    [token_indexers |-> <<"single_id">>,
     embedding_layer |-> [lookup |-> TRUE, weight |-> LayerWeight(WeightRowsA, v)]]

\* a lookup table with more rows than the attack namespace has ids
OversizedPredictor ==
    [token_indexers |-> <<"single_id">>,
     embedding_layer |-> [lookup |-> TRUE, weight |-> Append(WeightRowsB, <<2, 2>>)]]

\* the values the per-call variables hold when no attack has run
NoCall ==
    /\ ignore_tokens = None
    /\ target = None
    /\ target_word = None
    /\ original_tokens = <<>>
    /\ num_instances = 0
    /\ i = 0
    /\ current_tokens = <<>>
    /\ grads = <<>>
    /\ outputs = None
    /\ original_outputs = None
    /\ flipped = <<>>
    /\ initial_flipped = <<>>
    /\ changed = FALSE
    /\ loop_exit = "none"
    /\ final_tokens = <<>>
    /\ grad_calls = 0
    /\ iterations = 0
    /\ error = "none"

\* no direct call of _first_order_taylor is made
NoTaylor == [called |-> FALSE, grad |-> <<>>, embedding_matrix |-> <<>>,
             token_idx |-> 0, sign |-> 0, result |-> 0]

\* Hotflip.__init__ on a model with vocabulary v
Construct(v, ty, pred) ==
    /\ vocab = v
    /\ predictor = pred
    /\ invalid_replacement_indices = InvalidReplacementIndices(v)
    /\ token_embedding = None
    /\ constructions = 0
    /\ pc = "idle"
    /\ method = "none"
    /\ NoCall
    /\ taylor = ty

\* the objects the attacks are run on: one whose embedding layer fits the
\* vocabulary, one whose lookup table does not
Init ==
    \E pred \in {LookupPredictor(AttackVocab), OversizedPredictor} :
        Construct(AttackVocab, NoTaylor, pred)

\* the locals of an attack hold no value
ClearLocals ==
    /\ original_tokens' = <<>>
    /\ num_instances' = 0
    /\ i' = 0
    /\ current_tokens' = <<>>
    /\ grads' = <<>>
    /\ outputs' = None
    /\ original_outputs' = None
    /\ flipped' = <<>>
    /\ initial_flipped' = <<>>
    /\ changed' = FALSE
    /\ loop_exit' = "none"
    /\ final_tokens' = <<>>
    /\ grad_calls' = 0
    /\ iterations' = 0

\* a new call can be made on the object
Callable == pc = "idle"

\* _construct_embedding_matrix ends with an exception on this object
BuildRaises == ConstructEmbeddingMatrix(vocab, predictor) = ConfigurationError

\* the lazy build of a call raises: the matrix is still None and the builder fails
LazyInitializeRaises == token_embedding = None /\ BuildRaises

\* the lazy build done on every call, built or not
LazyInitialize_Always ==
    /\ token_embedding' =
            IF BuildRaises THEN token_embedding
            ELSE ConstructEmbeddingMatrix(vocab, predictor)
    /\ constructions' = constructions + 1

\* if self.token_embedding is None: self.initialize()
LazyInitialize ==
    IF token_embedding = None
    THEN /\ token_embedding' =
                IF BuildRaises THEN token_embedding
                ELSE ConstructEmbeddingMatrix(vocab, predictor)
         /\ constructions' = constructions + 1
    ELSE UNCHANGED <<token_embedding, constructions>>

\* initialize() as a build-once operation: a built matrix is kept
Initialize_Cached ==
    /\ Callable
    /\ constructions < MaxConstructions
    /\ LazyInitialize
    /\ pc' = "return"
    /\ method' = "initialize"
    /\ ignore_tokens' = None
    /\ target' = None
    /\ target_word' = None
    /\ error' = "none"
    /\ ClearLocals
    /\ UNCHANGED <<vocab, invalid_replacement_indices, taylor, predictor>>

\* Hotflip.initialize()
Initialize ==
    /\ Callable
    /\ constructions < MaxConstructions
    /\ constructions' = constructions + 1
    /\ IF BuildRaises
       THEN /\ token_embedding' = token_embedding
            /\ pc' = "raised"
            /\ error' = "ConfigurationError"
       ELSE /\ token_embedding' = ConstructEmbeddingMatrix(vocab, predictor)
            /\ pc' = "return"
            /\ error' = "none"
    /\ method' = "initialize"
    /\ ignore_tokens' = None
    /\ target' = None
    /\ target_word' = None
    /\ ClearLocals
    /\ UNCHANGED <<vocab, invalid_replacement_indices, taylor, predictor>>

-----------------------------------------------------------------------------
(* What the callers and the external model supply. *)

InputTexts == {TxtDot, TxtA, TxtB}

SeqsOfLen(S, n) == [1..n -> S]

\* the token sequences of the inputs
InputSequences == UNION {SeqsOfLen(InputTexts, n) : n \in 0..MaxLen}

\* the argument ignore_tokens: None or a list
IgnoreArgs == {None, Some(<<TxtA>>)}

\* the argument target
TargetArgs == {None, Some(<<"p", "o", "s">>)}

\* the argument target_word
TargetWordArgs == {None, Some(TxtDot), Some(TxtA)}

\* the gradients get_gradients may return for a sequence of n tokens
GradsFor(n) == SeqsOfLen(GradVectors, n)

\* the cluster lists a span-producing model may output for n tokens: a cluster
\* is a sequence of mentions <<first, last>>
ClusterListsFor(n) ==
    IF n = 0 THEN { <<>> }
    ELSE LET head == << <<1, 1>> >>
             tail == << <<n, n>> >>
         IN { <<>>, <<head>>, <<tail>>, <<head, tail>>, <<tail, head>>, <<head, head>> }

\* the outputs get_gradients may return for n tokens from a model that does
\* (hc) or does not produce clusters
OutputsFor(n, hc) ==
    IF hc
    THEN {[has_clusters |-> TRUE, clusters |-> cl] : cl \in ClusterListsFor(n)}
    ELSE {[has_clusters |-> FALSE, clusters |-> <<>>]}

-----------------------------------------------------------------------------
(* The mask and the selection of the position to flip. *)

\* the positions, in ascending order, whose text is in the ignore list
RECURSIVE IgnoredUpTo(_, _, _)
IgnoredUpTo(tokens, ignore, n) ==
    IF n = 0 THEN <<>>
    ELSE IF Contains(ignore, tokens[n])
         THEN Append(IgnoredUpTo(tokens, ignore, n - 1), n)
         ELSE IgnoredUpTo(tokens, ignore, n - 1)

\* the positions, in ascending order, whose text is not the target word
RECURSIVE NotWordUpTo(_, _, _)
NotWordUpTo(tokens, word, n) ==
    IF n = 0 THEN <<>>
    ELSE IF tokens[n] # word.val
         THEN Append(NotWordUpTo(tokens, word, n - 1), n)
         ELSE NotWordUpTo(tokens, word, n - 1)

\* a loop entered without the ignore list applied
InitialFlipped_Empty(tokens, ignore) == <<>>

\* flipped at the entry of the while loop of attack_from_json
InitialFlipped(tokens, ignore) == IgnoredUpTo(tokens, ignore, Len(tokens))

\* a targeted loop entered with the ignore list only, whatever target_word is
TargetedInitialFlipped_IgnoreOnly(tokens, ignore, word) ==
    IgnoredUpTo(tokens, ignore, Len(tokens))

\* flipped at the entry of the while loop of targeted_attack_from_json
TargetedInitialFlipped(tokens, ignore, word) ==
    IF word # None
    THEN NotWordUpTo(tokens, word, Len(tokens))
    ELSE IgnoredUpTo(tokens, ignore, Len(tokens))

\* position p lies in a mention of a cluster of the outputs
InClusterSpan(out, p) ==
    /\ out.has_clusters
    /\ \E c \in 1..Len(out.clusters) :
         \E m \in 1..Len(out.clusters[c]) :
            out.clusters[c][m][1] <= p /\ p <= out.clusters[c][m][2]

\* a mask that leaves out the positions already flipped
Masked_ClustersOnly(flip, out, p) == InClusterSpan(out, p)

\* a mask that leaves out the cluster spans
Masked_FlippedOnly(flip, out, p) == Contains(flip, p)

\* position p is masked: grads_magnitude[p] is set to -1
Masked(flip, out, p) == Contains(flip, p) \/ InClusterSpan(out, p)

\* grads_magnitude after the masking
GradsMagnitude(grad, flip, out) ==
    [p \in 1..Len(grad) |-> IF Masked(flip, out, p) THEN -1 ELSE Dot(grad[p], grad[p])]

\* argmax that keeps the last position of the maximum
Argmax_Last(mag) ==
    CHOOSE p \in 1..Len(mag) :
        /\ \A q \in 1..Len(mag) : mag[q] <= mag[p]
        /\ \A q \in (p + 1)..Len(mag) : mag[q] < mag[p]

\* numpy.argmax of a non-empty list: the first position of the maximum
Argmax(mag) ==
    CHOOSE p \in 1..Len(mag) :
        /\ \A q \in 1..Len(mag) : mag[q] <= mag[p]
        /\ \A q \in 1..(p - 1) : mag[q] < mag[p]

\* set(tuple(l) for l in outputs['clusters'])
ClusterSet(out) == {out.clusters[c] : c \in 1..Len(out.clusters)}

\* the stopping check calls utils.instance_has_changed: the elif of
\* attack_from_json is reached only without clusters, the second if of
\* targeted_attack_from_json unless the cluster check has left the loop
ComparesFields(targeted, orig_out, out) ==
    IF targeted
    THEN ~(out.has_clusters /\ ClusterSet(orig_out) # ClusterSet(out))
    ELSE ~out.has_clusters

\* a comparison of the cluster lists in place of the sets
StopUntargeted_ListCompare(orig_out, out, has_changed) ==
    IF out.has_clusters
    THEN orig_out.clusters # out.clusters
    ELSE has_changed

\* the untargeted loop breaks after the substitution
StopUntargeted(orig_out, out, has_changed) ==
    IF out.has_clusters
    THEN ClusterSet(orig_out) # ClusterSet(out)
    ELSE has_changed

\* the targeted loop breaks after the substitution
StopTargeted(orig_out, out, has_changed) ==
    \/ out.has_clusters /\ ClusterSet(orig_out) # ClusterSet(out)
    \/ ~has_changed

-----------------------------------------------------------------------------
(* attack_from_json and targeted_attack_from_json. *)

\* the sign attack_from_json passes to _first_order_taylor
AttackSign == -1
\* sign = 1.0 in targeted_attack_from_json
TargetedSign == 1

\* a call that never checks the target
TargetMissing_Never(tgt) == FALSE

\* if target is None: raise ValueError("set the target")
TargetMissing(tgt) == tgt = None

\* ignore_tokens = [...] if ignore_tokens is None else ignore_tokens
IgnoreTokensOrDefault(ign) == IF ign = None THEN DefaultIgnoreTokens ELSE ign.val

\* the body of the for loop up to the while loop, for instance idx with
\* tokens toks: get_gradients returned g and out, flipped starts as flip
EnterInstance(idx, toks, flip, g, out) ==
    /\ i' = idx
    /\ current_tokens' = toks
    /\ grads' = g
    /\ outputs' = out
    /\ original_outputs' = IF out.has_clusters THEN out ELSE original_outputs
    /\ flipped' = flip
    /\ initial_flipped' = flip
    /\ grad_calls' = grad_calls + 1
    /\ iterations' = 0
    /\ changed' = FALSE
    /\ loop_exit' = "none"
    /\ pc' = "loop"

\* the call ends with exception e before any instance is set up
RaiseAtEntry(e) ==
    /\ pc' = "raised"
    /\ error' = e
    /\ ClearLocals

\* attack_from_json, up to the first pass of the while loop
AttackFromJson ==
    /\ Callable
    /\ token_embedding = None => constructions < MaxConstructions
    /\ \E toks \in InputSequences, ign \in IgnoreArgs, n \in 1..MaxInstances,
          hc \in BOOLEAN :
        \E g \in GradsFor(Len(toks)), out \in OutputsFor(Len(toks), hc) :
            /\ LazyInitialize
            /\ method' = "attack"
            /\ target' = None
            /\ target_word' = None
            /\ IF LazyInitializeRaises
               THEN /\ ignore_tokens' = None
                    /\ RaiseAtEntry("ConfigurationError")
               ELSE /\ ignore_tokens' = IgnoreTokensOrDefault(ign)
                    /\ original_tokens' = toks
                    /\ num_instances' = n
                    /\ final_tokens' = <<>>
                    /\ error' = "none"
                    /\ EnterInstance(1, toks,
                                     InitialFlipped(toks, IgnoreTokensOrDefault(ign)),
                                     g, out)
    /\ UNCHANGED <<vocab, invalid_replacement_indices, taylor, predictor>>

\* targeted_attack_from_json, up to the first pass of the while loop
TargetedAttackFromJson ==
    /\ Callable
    /\ token_embedding = None => constructions < MaxConstructions
    /\ \E toks \in InputSequences, ign \in IgnoreArgs, n \in 1..MaxInstances,
          hc \in BOOLEAN, tgt \in TargetArgs, word \in TargetWordArgs :
        \E g \in GradsFor(Len(toks)), out \in OutputsFor(Len(toks), hc) :
            /\ LazyInitialize
            /\ method' = "targeted"
            /\ target' = tgt
            /\ target_word' = word
            /\ IF LazyInitializeRaises
               THEN /\ ignore_tokens' = None
                    /\ RaiseAtEntry("ConfigurationError")
               ELSE IF TargetMissing(tgt)
               THEN /\ ignore_tokens' = None
                    /\ RaiseAtEntry("ValueError")
               ELSE /\ ignore_tokens' = IgnoreTokensOrDefault(ign)
                    /\ original_tokens' = toks
                    /\ num_instances' = n
                    /\ final_tokens' = <<>>
                    /\ error' = "none"
                    /\ EnterInstance(1, toks,
                                     TargetedInitialFlipped(toks, IgnoreTokensOrDefault(ign),
                                                            word),
                                     g, out)
    /\ UNCHANGED <<vocab, invalid_replacement_indices, taylor, predictor>>

\* the substitution written one position further on (wrapping around)
Substitute_NextPosition(tokens, index, new_token) ==
    [tokens EXCEPT ![(index % Len(tokens)) + 1] = new_token]

\* current_text_field.tokens[index_of_token_to_flip] = new_token
Substitute(tokens, index, new_token) == [tokens EXCEPT ![index] = new_token]

\* one pass of the while loop: selection of the position, and then either the
\* break on exhaustion or the substitution, the new predictions and the
\* stopping check
LoopPass(sign, targeted) ==
    LET grads_magnitude == GradsMagnitude(grads, flipped, outputs)
    IN IF Len(grads_magnitude) = 0
       THEN \* numpy.argmax of an empty list raises ValueError
            /\ pc' = "raised"
            /\ error' = "ValueError"
            /\ UNCHANGED <<current_tokens, grads, outputs, flipped, changed,
                           loop_exit, grad_calls, iterations>>
       ELSE LET index_of_token_to_flip == Argmax(grads_magnitude)
            IN IF grads_magnitude[index_of_token_to_flip] = -1
               THEN /\ loop_exit' = "exhausted"
                    /\ pc' = "after_loop"
                    /\ error' = "none"
                    /\ UNCHANGED <<current_tokens, grads, outputs, flipped,
                                   changed, grad_calls, iterations>>
               ELSE LET original_id_of_token_to_flip ==
                            TokenToIndex(vocab, current_tokens[index_of_token_to_flip])
                        new_id_of_flipped_token ==
                            FirstOrderTaylor(grads[index_of_token_to_flip],
                                             token_embedding.weight,
                                             original_id_of_token_to_flip,
                                             sign,
                                             invalid_replacement_indices)
                        new_token == IndexToToken(vocab, new_id_of_flipped_token)
                    IN /\ flipped' = Append(flipped, index_of_token_to_flip)
                       /\ current_tokens' =
                            Substitute(current_tokens, index_of_token_to_flip, new_token)
                       /\ \E g \in GradsFor(Len(current_tokens)),
                             out \in OutputsFor(Len(current_tokens), outputs.has_clusters),
                             has_changed \in BOOLEAN :
                            /\ grads' = g
                            /\ outputs' = out
                            /\ changed' = IF ComparesFields(targeted, original_outputs, out)
                                           THEN has_changed
                                           ELSE changed
                            /\ grad_calls' = grad_calls + 1
                            /\ iterations' = iterations + 1
                            /\ error' = "none"
                            /\ IF (IF targeted
                                   THEN StopTargeted(original_outputs, out, has_changed)
                                   ELSE StopUntargeted(original_outputs, out, has_changed))
                               THEN pc' = "after_loop" /\ loop_exit' = "stopped"
                               ELSE pc' = "loop" /\ loop_exit' = "none"

\* a pass of the while loop of attack_from_json
AttackLoop ==
    /\ pc = "loop"
    /\ method = "attack"
    /\ LoopPass(AttackSign, FALSE)
    /\ UNCHANGED <<vocab, invalid_replacement_indices, token_embedding,
                   constructions, method, ignore_tokens, target, target_word,
                   original_tokens, num_instances, i, original_outputs,
                   initial_flipped, final_tokens, taylor, predictor>>

\* a pass of the while loop of targeted_attack_from_json
TargetedLoop ==
    /\ pc = "loop"
    /\ method = "targeted"
    /\ LoopPass(TargetedSign, TRUE)
    /\ UNCHANGED <<vocab, invalid_replacement_indices, token_embedding,
                   constructions, method, ignore_tokens, target, target_word,
                   original_tokens, num_instances, i, original_outputs,
                   initial_flipped, final_tokens, taylor, predictor>>

\* flipped at the entry of the while loop, for the method that is running
EntryFlipped(toks) ==
    IF method = "attack"
    THEN InitialFlipped(toks, ignore_tokens)
    ELSE TargetedInitialFlipped(toks, ignore_tokens, target_word)

\* after the while loop with the break on clusters left out: every instance
\* is attacked
AfterLoop_NoClusterBreak ==
    /\ pc = "after_loop"
    /\ final_tokens' = Append(final_tokens, current_tokens)
    /\ IF i = num_instances
       THEN /\ pc' = "return"
            /\ UNCHANGED <<i, current_tokens, grads, outputs, original_outputs,
                           flipped, initial_flipped, grad_calls, iterations, changed,
                           loop_exit>>
       ELSE \E g \in GradsFor(Len(original_tokens)),
               out \in OutputsFor(Len(original_tokens), outputs.has_clusters) :
                EnterInstance(i + 1, original_tokens, EntryFlipped(original_tokens), g, out)
    /\ UNCHANGED <<vocab, invalid_replacement_indices, token_embedding,
                   constructions, method, ignore_tokens, target, target_word,
                   original_tokens, num_instances, error, taylor, predictor>>

\* after the while loop: final_tokens.append(current_tokens), then the return
\* (after the last instance, or at once when the outputs carry clusters) or the
\* next instance, whose tokens are those of the input
AfterLoop ==
    /\ pc = "after_loop"
    /\ final_tokens' = Append(final_tokens, current_tokens)
    /\ IF outputs.has_clusters \/ i = num_instances
       THEN /\ pc' = "return"
            /\ UNCHANGED <<i, current_tokens, grads, outputs, original_outputs,
                           flipped, initial_flipped, grad_calls, iterations, changed,
                           loop_exit>>
       ELSE \E g \in GradsFor(Len(original_tokens)),
               out \in OutputsFor(Len(original_tokens), outputs.has_clusters) :
                EnterInstance(i + 1, original_tokens, EntryFlipped(original_tokens), g, out)
    /\ UNCHANGED <<vocab, invalid_replacement_indices, token_embedding,
                   constructions, method, ignore_tokens, target, target_word,
                   original_tokens, num_instances, error, taylor, predictor>>

\* the call is over: the result or the exception has reached the caller and the
\* locals of the call are gone
Return ==
    /\ pc \in {"return", "raised"}
    /\ pc' = "idle"
    /\ method' = "none"
    /\ ignore_tokens' = None
    /\ target' = None
    /\ target_word' = None
    /\ error' = "none"
    /\ ClearLocals
    /\ UNCHANGED <<vocab, invalid_replacement_indices, token_embedding,
                   constructions, taylor, predictor>>

Next ==
    \/ Initialize
    \/ AttackFromJson
    \/ TargetedAttackFromJson
    \/ AttackLoop
    \/ TargetedLoop
    \/ AfterLoop
    \/ Return

Spec == Init /\ [][Next]_vars

-----------------------------------------------------------------------------
(* _first_order_taylor called directly, over vocabularies, embedding       *)
(* matrices, gradients, token ids and signs.                               *)

\* the gradient vectors of the direct calls
TaylorGrads == { <<0, 0>>, <<1, -1>>, <<1, 0>>, <<0, 1>>, <<-1, 0>>, <<2, 1>> }

InitTaylor ==
    \E v \in Vocabularies, rows \in {WeightRowsA, WeightRowsB}, g \in TaylorGrads,
       sgn \in {AttackSign, TargetedSign} :
        \E t \in 0..(VocabSize(v) - 1) :
            Construct(v, [called |-> FALSE, grad |-> g,
                          embedding_matrix |-> LayerWeight(rows, v),
                          token_idx |-> t, sign |-> sgn, result |-> 0],
                      LookupPredictor(v))

\* self._first_order_taylor(grad, embedding_matrix, token_idx, sign)
TaylorCall ==
    /\ pc = "idle"
    /\ ~taylor.called
    /\ taylor' = [taylor EXCEPT
                    !.called = TRUE,
                    !.result = FirstOrderTaylor(taylor.grad, taylor.embedding_matrix,
                                                taylor.token_idx, taylor.sign,
                                                invalid_replacement_indices)]
    /\ method' = "taylor"
    /\ UNCHANGED <<vocab, invalid_replacement_indices, token_embedding,
                   constructions, pc, ignore_tokens, target, target_word,
                   original_tokens, num_instances, i, current_tokens, grads,
                   outputs, original_outputs, flipped, initial_flipped, changed,
                   loop_exit, final_tokens, grad_calls, iterations, error,
                   predictor>>

NextTaylor == TaylorCall

SpecTaylor == InitTaylor /\ [][NextTaylor]_vars

-----------------------------------------------------------------------------
(* _construct_embedding_matrix over the configurations of the predictor:    *)
(* the token indexers of its dataset reader and the embedding layer that    *)
(* util.find_embedding_layer finds in its model.                            *)

\* the token indexers of a dataset reader, at most MaxIndexers of them
IndexerConfigurations ==
    UNION {[1..n -> IndexerKinds] : n \in 1..MaxIndexers}

\* the embedding layers: a lookup table (torch.nn.Embedding) or a callable
\* embedder, over weights of as many rows as the vocabulary has ids or more
EmbeddingLayers(v) ==
    {[lookup |-> l, weight |-> w] :
        l \in BOOLEAN,
        w \in {LayerWeight(WeightRowsA, v), Append(WeightRowsB, <<2, 2>>)}}

InitBuild ==
    \E v \in Vocabularies, token_indexers \in IndexerConfigurations :
        \E layer \in EmbeddingLayers(v) :
            Construct(v, NoTaylor,
                      [token_indexers |-> token_indexers, embedding_layer |-> layer])

NextBuild ==
    \/ Initialize
    \/ Return

SpecBuild == InitBuild /\ [][NextBuild]_vars

-----------------------------------------------------------------------------
(* The claims. *)

\* an attack is inside or just after the per-instance loop
InAttack == method \in {"attack", "targeted"} /\ pc \in {"loop", "after_loop", "return"}

\* the positions appended to flipped by the passes of the current while loop
Selected == {flipped[k] : k \in (Len(initial_flipped) + 1)..Len(flipped)}

\* C1: the while loop of either attack completes at most (sequence length)
\* passes, and once that many are completed no position is left unmasked, so
\* the next pass leaves the loop.
C1_LoopHaltsWithinLength ==
    InAttack =>
        /\ iterations <= Len(current_tokens)
        /\ (pc = "loop" /\ iterations = Len(current_tokens)) =>
              \A p \in 1..Len(current_tokens) :
                  GradsMagnitude(grads, flipped, outputs)[p] = -1

C1_Witness ==
    /\ InAttack
    /\ pc = "after_loop"
    /\ loop_exit = "exhausted"
    /\ iterations >= 2
    /\ iterations = Len(current_tokens)

\* C2: every completed pass appends exactly one position to flipped, a position
\* that was not in the mask the loop was entered with, was not flipped before
\* and lies in no cluster span of the latest outputs; a pass that does not
\* complete leaves flipped as it is.
C2_OneNewUnmaskedPositionPerPass ==
    [][ pc = "loop" =>
          IF iterations' = iterations + 1
          THEN \E p \in 1..Len(current_tokens) :
                  /\ flipped' = Append(flipped, p)
                  /\ ~Contains(initial_flipped, p)
                  /\ ~Contains(flipped, p)
                  /\ ~InClusterSpan(outputs, p)
          ELSE flipped' = flipped ]_vars

C2_Witness ==
    /\ InAttack
    /\ iterations >= 1
    /\ original_outputs # None
    /\ Len(original_outputs.clusters) >= 1
    /\ Cardinality(Selected) = iterations

C4_UntargetedStopRule ==
    (method = "attack" /\ pc \in {"loop", "after_loop"} /\ iterations >= 1
       /\ loop_exit # "exhausted") =>
        LET stop == IF outputs.has_clusters
                    THEN ClusterSet(original_outputs) # ClusterSet(outputs)
                    ELSE changed
        IN /\ stop => (pc = "after_loop" /\ loop_exit = "stopped")
           /\ ~stop => pc = "loop"

C4_Witness ==
    /\ method = "attack"
    /\ pc = "loop"
    /\ iterations >= 1
    /\ outputs.has_clusters
    /\ outputs.clusters # original_outputs.clusters
    /\ ClusterSet(outputs) = ClusterSet(original_outputs)

\* C5 as claimed: after a substitution the targeted loop stops exactly when the
\* outputs carry clusters and their set differs from the snapshot, or carry
\* none and the compared fields are unchanged; with an identical cluster set it
\* goes on to the next pass.
C5_TargetedStopRule ==
    (method = "targeted" /\ pc \in {"loop", "after_loop"} /\ iterations >= 1
       /\ loop_exit # "exhausted") =>
        LET stop == IF outputs.has_clusters
                    THEN ClusterSet(original_outputs) # ClusterSet(outputs)
                    ELSE ~changed
        IN /\ stop => (pc = "after_loop" /\ loop_exit = "stopped")
           /\ ~stop => pc = "loop"

\* C6: in attack_from_json a position whose text is in the ignore list at the
\* start is never selected, and keeps its token in the current and in every
\* final sequence.
C6_IgnoredNeverFlipped ==
    (InAttack /\ method = "attack") =>
        \A p \in 1..Len(original_tokens) :
            Contains(ignore_tokens, original_tokens[p]) =>
                /\ p \notin Selected
                /\ current_tokens[p] = original_tokens[p]
                /\ \A f \in 1..Len(final_tokens) : final_tokens[f][p] = original_tokens[p]

\* an ignored position holds the strictly largest gradient norm while a flip
\* has changed another position
C6_Witness ==
    /\ InAttack
    /\ method = "attack"
    /\ pc = "loop"
    /\ iterations >= 1
    /\ current_tokens # original_tokens
    /\ \E p \in 1..Len(original_tokens) :
          /\ Contains(ignore_tokens, original_tokens[p])
          /\ \A q \in 1..Len(original_tokens) :
                q # p => Dot(grads[q], grads[q]) < Dot(grads[p], grads[p])

\* C7 as claimed: the mask targeted_attack_from_json enters its loop with holds
\* a position exactly when its text is in the ignore list or, with a
\* target_word, is not the target_word.
C7_IgnoredAlwaysPreMasked ==
    (InAttack /\ method = "targeted") =>
        \A p \in 1..Len(original_tokens) :
            Contains(initial_flipped, p) <=>
                \/ Contains(ignore_tokens, original_tokens[p])
                \/ (target_word # None /\ original_tokens[p] # target_word.val)

\* C8: with a target_word that occurs at exactly one position p, the targeted
\* loop selects no position but p, completes at most one pass, keeps every
\* other position masked and leaves every other token as it was.
C8_OnlyTargetWordPositionFlipped ==
    (InAttack /\ method = "targeted" /\ target_word # None) =>
        \A p \in 1..Len(original_tokens) :
            (/\ original_tokens[p] = target_word.val
             /\ \A q \in 1..Len(original_tokens) :
                    q # p => original_tokens[q] # target_word.val) =>
                /\ Selected \subseteq {p}
                /\ iterations <= 1
                /\ \A q \in 1..Len(original_tokens) :
                      q # p =>
                        /\ Contains(flipped, q)
                        /\ current_tokens[q] = original_tokens[q]
                        /\ \A f \in 1..Len(final_tokens) :
                              final_tokens[f][q] = original_tokens[q]

C8_Witness ==
    /\ InAttack
    /\ method = "targeted"
    /\ target_word # None
    /\ iterations = 1
    /\ Len(original_tokens) >= 2
    /\ Cardinality({p \in 1..Len(original_tokens) :
                       original_tokens[p] = target_word.val}) = 1
    /\ current_tokens # original_tokens

\* C9: targeted_attack_from_json with target = None ends at once with an
\* error (the ValueError of the target check, or the error of the lazy build
\* when the matrix cannot be built): no get_gradients call was made and no
\* sequence was touched.
C9_NoTargetRaisesAtOnce ==
    (method = "targeted" /\ target = None) =>
        /\ pc = "raised"
        /\ error = IF token_embedding = None THEN "ConfigurationError" ELSE "ValueError"
        /\ grad_calls = 0
        /\ current_tokens = <<>>
        /\ final_tokens = <<>>

C9_Witness ==
    /\ method = "targeted"
    /\ target = None
    /\ pc = "raised"
    /\ token_embedding # None

\* C10 as claimed: when no position is eligible as the loop is entered (the
\* empty sequence included), the attack raises nothing, leaves the loop on its
\* first pass and reports the sequence unmodified.
C10_NoEligiblePositionIsNoError ==
    (/\ method \in {"attack", "targeted"}
     /\ i >= 1
     /\ iterations = 0
     /\ \A p \in 1..Len(current_tokens) : Masked(initial_flipped, outputs, p)) =>
        /\ pc # "raised"
        /\ error = "none"
        /\ pc \in {"after_loop", "return"} =>
              /\ loop_exit = "exhausted"
              /\ current_tokens = original_tokens
        /\ pc = "return" => final_tokens[Len(final_tokens)] = original_tokens

-----------------------------------------------------------------------------
(* C11 .. C20 *)

\* a step that starts a call of one of the two attacks
AttackCallStep == pc = "idle" /\ method' \in {"attack", "targeted"}

\* a step that is a call of initialize()
InitializeCallStep == pc = "idle" /\ method' = "initialize"

\* C11 as stated: over any sequence of initialize(), attack_from_json and
\* targeted_attack_from_json calls on one object, _construct_embedding_matrix
\* runs exactly once, at the first of these calls.
C11_BuiltExactlyOnce ==
    /\ constructions <= 1
    /\ method \in {"attack", "targeted", "initialize"} => constructions = 1

\* the builder has run in this step and has either produced the matrix that
\* token_embedding now holds or ended the call with its error
BuilderRan ==
    /\ constructions' = constructions + 1
    /\ \/ token_embedding' = ConstructEmbeddingMatrix(vocab, predictor)
       \/ /\ pc' = "raised"
          /\ error' = "ConfigurationError"
          /\ token_embedding' = token_embedding

\* C11 amended: an attack runs _construct_embedding_matrix only when
\* token_embedding is still None, and then before any gradient computation; an
\* attack on a built object reuses token_embedding without reassigning it and
\* nothing inside a running call touches it; every call of initialize() runs
\* _construct_embedding_matrix again and, unless the builder raises, reassigns
\* token_embedding.
C11_LazyBuildReusedByAttacks ==
    [][ /\ AttackCallStep =>
            IF token_embedding = None
            THEN BuilderRan
            ELSE token_embedding' = token_embedding /\ constructions' = constructions
        /\ pc # "idle" =>
            token_embedding' = token_embedding /\ constructions' = constructions
        /\ InitializeCallStep => BuilderRan
        /\ grad_calls' > 0 => token_embedding' # None ]_vars

\* an attack is running on an object whose matrix was built twice
C11_Witness ==
    /\ pc = "loop"
    /\ constructions = 2
    /\ grad_calls > 0
    /\ token_embedding # None

\* the dataset reader has a token indexer that the for loop of
\* _construct_embedding_matrix has no branch for
HasUnhandledIndexer ==
    \E j \in DOMAIN predictor.token_indexers :
        predictor.token_indexers[j] \notin {"single_id", "characters", "elmo"}

\* C12 as stated: when the token indexers contain an encoding scheme the
\* builder does not handle, a call that runs _construct_embedding_matrix ends
\* in a configuration error and produces no matrix.
C12_UnhandledIndexerRaises ==
    (method = "initialize" /\ HasUnhandledIndexer) =>
        /\ pc = "raised"
        /\ error = "ConfigurationError"
        /\ token_embedding = None

\* C14: for every configuration of token indexers and embedding layer (lookup
\* table or callable), an embedding matrix that _construct_embedding_matrix
\* produces has as many rows as the attack namespace has vocabulary ids.
C14_RowsEqualVocabSize ==
    token_embedding # None =>
        /\ token_embedding.num_embeddings = VocabSize(vocab)
        /\ Len(token_embedding.weight) = VocabSize(vocab)

\* a matrix was built by the forward pass of a callable layer, over a reader
\* with a character-level and an ELMo indexer
C14_Witness ==
    /\ method = "initialize"
    /\ pc = "return"
    /\ token_embedding # None
    /\ ~predictor.embedding_layer.lookup
    /\ predictor.token_indexers = <<"characters", "elmo">>
    /\ Len(token_embedding.weight) = VocabSize(vocab)
    /\ token_embedding.embedding_dim = 6

\* d_k of the direct call: sign * (g.E[t] - g.E[k])
TaylorD(k) ==
    taylor.sign * (Dot(taylor.grad, taylor.embedding_matrix[taylor.token_idx + 1])
                   - Dot(taylor.grad, taylor.embedding_matrix[k + 1]))

\* the ids of the embedding matrix of the direct call
TaylorIds == 0..(Len(taylor.embedding_matrix) - 1)

\* the ids that are not in the invalid-replacement set
TaylorValidIds == {k \in TaylorIds : ~Contains(invalid_replacement_indices, k)}

\* C13: for every gradient, embedding matrix, current id and sign of +1 or -1,
\* _first_order_taylor returns the lowest id that maximizes
\* d_k = s * (g.E[t] - g.E[k]) with d_k at minus infinity for the invalid ids:
\* a valid id whose d is not exceeded by any valid id and is above the d of
\* every lower valid id, or id 0 when every id is invalid.
C13_LowestMaximizerOfMaskedScore ==
    taylor.called =>
        /\ taylor.sign \in {1, -1}
        /\ taylor.result \in TaylorIds
        /\ IF TaylorValidIds = {}
           THEN taylor.result = 0
           ELSE /\ taylor.result \in TaylorValidIds
                /\ \A k \in TaylorValidIds : TaylorD(k) <= TaylorD(taylor.result)
                /\ \A k \in TaylorValidIds :
                        k < taylor.result => TaylorD(k) < TaylorD(taylor.result)

\* a call where two valid ids share the largest d, and an invalid id has a
\* larger d than both
C13_Witness ==
    /\ taylor.called
    /\ \E k \in TaylorValidIds :
            k > taylor.result /\ TaylorD(k) = TaylorD(taylor.result)
    /\ \E j \in TaylorIds \ TaylorValidIds : TaylorD(j) > TaylorD(taylor.result)

\* the squared L2 norm of the gradient at position p
SquaredNorm(p) == grads[p][1] * grads[p][1] + grads[p][2] * grads[p][2]

\* the positions the mask does not cover at the top of a pass
Unmasked == {p \in 1..Len(current_tokens) : ~Masked(flipped, outputs, p)}

\* C15: in every pass of either loop that flips a token, the position selected
\* is not masked, no unmasked position has a larger squared L2 gradient norm,
\* and every unmasked position before it has a smaller one; the priority of a
\* masked position is -1, that of an unmasked one its norm, zero included.
C15_LargestNormUnmaskedLowestIndex ==
    [][ (pc = "loop" /\ iterations' = iterations + 1) =>
          LET p == flipped'[Len(flipped')]
          IN /\ p \in Unmasked
             /\ \A q \in Unmasked : SquaredNorm(q) <= SquaredNorm(p)
             /\ \A q \in Unmasked : q < p => SquaredNorm(q) < SquaredNorm(p)
             /\ \A q \in 1..Len(current_tokens) :
                    GradsMagnitude(grads, flipped, outputs)[q] =
                        IF q \in Unmasked THEN SquaredNorm(q) ELSE -1 ]_vars

\* after a pass that selected the second of two positions, the only unmasked
\* position has a zero gradient and a masked position has a positive one
C15_Witness ==
    /\ pc = "loop"
    /\ method \in {"attack", "targeted"}
    /\ iterations >= 1
    /\ Len(current_tokens) = 2
    /\ flipped[Len(flipped)] = 2
    /\ Unmasked = {1}
    /\ SquaredNorm(1) = 0
    /\ SquaredNorm(2) > 0

\* C16 as stated: a pass leaves the loop through the exhaustion exit exactly
\* when every position of the sequence is masked at the top of the pass, and a
\* pass in which every position is masked flips no token.
C16_ExhaustedExactlyWhenAllMasked ==
    [][ (pc = "loop" /\ pc' # "loop") =>
          /\ (pc' = "after_loop" /\ loop_exit' = "exhausted") <=> (Unmasked = {})
          /\ Unmasked = {} =>
                current_tokens' = current_tokens /\ flipped' = flipped ]_vars

\* the mask an instance of the running call starts with
FreshMask ==
    IF method = "attack"
    THEN InitialFlipped(original_tokens, ignore_tokens)
    ELSE TargetedInitialFlipped(original_tokens, ignore_tokens, target_word)

\* C17: instances are attacked in order and one at a time, each starting from
\* the mask computed from its own tokens; when the outputs carry clusters the
\* call returns after the first instance with exactly one final sequence, and
\* otherwise with one final sequence per instance.
C17_OneInstanceWhenClusters ==
    InAttack =>
        /\ i \in 1..num_instances
        /\ initial_flipped = FreshMask
        /\ Len(flipped) = Len(initial_flipped) + iterations
        /\ pc \in {"loop", "after_loop"} => Len(final_tokens) = i - 1
        /\ pc = "return" =>
              /\ Len(final_tokens) = i
              /\ IF outputs.has_clusters THEN i = 1 ELSE i = num_instances

\* a call with two labeled instances and clusters in the outputs has returned
\* with a single final sequence
C17_Witness ==
    /\ InAttack
    /\ pc = "return"
    /\ outputs.has_clusters
    /\ num_instances = 2
    /\ Len(final_tokens) = 1
    /\ iterations >= 1

\* C18 as stated: every flip of either attack puts another vocabulary token at
\* the selected position: the token there after the pass differs from the one
\* before it.
C18_FlipChangesTheToken ==
    [][ (pc = "loop" /\ iterations' = iterations + 1) =>
          LET p == flipped'[Len(flipped')]
          IN current_tokens'[p] # current_tokens[p] ]_vars

\* the positions where a sequence differs from the tokens of the input
Differing(tokens) == {p \in 1..Len(tokens) : tokens[p] # original_tokens[p]}

\* C19: during and at the return of an attack the sequence being attacked has
\* the length of the snapshot original_tokens and differs from it only at
\* positions selected by the loop, hence at no more positions than passes were
\* completed; the first instance enters its loop equal to the snapshot; every
\* final sequence has the length of the snapshot and holds the snapshot's
\* token at every position masked before the loop.
C19_OnlySelectedPositionsDiffer ==
    InAttack =>
        /\ Len(current_tokens) = Len(original_tokens)
        /\ Differing(current_tokens) \subseteq Selected
        /\ Cardinality(Differing(current_tokens)) <= iterations
        /\ (i = 1 /\ iterations = 0) => current_tokens = original_tokens
        /\ \A k \in 1..Len(final_tokens) :
              /\ Len(final_tokens[k]) = Len(original_tokens)
              /\ \A p \in Differing(final_tokens[k]) : ~Contains(initial_flipped, p)
        /\ pc = "return" => final_tokens[Len(final_tokens)] = current_tokens

\* an attack has returned a two-token sequence of which one position was
\* selected and changed and the other holds its token of the input
C19_Witness ==
    /\ InAttack
    /\ pc = "return"
    /\ Len(original_tokens) = 2
    /\ Cardinality(Selected) = 1
    /\ Differing(current_tokens) = Selected
    /\ final_tokens[Len(final_tokens)] # original_tokens

\* a step that is a call of targeted_attack_from_json failing on target = None
TargetMissingCallStep ==
    /\ pc = "idle"
    /\ method' = "targeted"
    /\ target' = None
    /\ pc' = "raised"
    /\ error' = "ValueError"

\* C20 as stated: a call of targeted_attack_from_json that fails because target
\* is None leaves the state of the object as it was: the builder has not run
\* and token_embedding is what it was, None if it was None.
C20_FailedCallLeavesObjectUnchanged ==
    [][ TargetMissingCallStep =>
          /\ vocab' = vocab
          /\ invalid_replacement_indices' = invalid_replacement_indices
          /\ token_embedding' = token_embedding
          /\ constructions' = constructions ]_vars

\* C20 amended: a call of targeted_attack_from_json that fails because target
\* is None computes no gradient and leaves vocab and
\* invalid_replacement_indices as they were; a token_embedding already built is
\* left as it is, but on an object whose token_embedding is None the call has
\* run _construct_embedding_matrix before the target check and token_embedding
\* holds the built matrix afterwards.
C20_FailedCallBuildsUnbuiltMatrix ==
    [][ TargetMissingCallStep =>
          /\ vocab' = vocab
          /\ invalid_replacement_indices' = invalid_replacement_indices
          /\ grad_calls' = 0
          /\ IF token_embedding = None
             THEN /\ token_embedding' = ConstructEmbeddingMatrix(vocab, predictor)
                  /\ token_embedding' # None
                  /\ constructions' = constructions + 1
             ELSE /\ token_embedding' = token_embedding
                  /\ constructions' = constructions ]_vars

\* a targeted call without target has failed on the target check and the
\* object holds a matrix built exactly once
C20_Witness ==
    /\ method = "targeted"
    /\ target = None
    /\ pc = "raised"
    /\ error = "ValueError"
    /\ grad_calls = 0
    /\ constructions = 1
    /\ token_embedding = ConstructEmbeddingMatrix(vocab, predictor)

====
